---- MODULE Spec2Model ----
(***************************************************************************)
(* State-machine model of the pumpkin-school cogs:                         *)
(*   - reviews  (src/reviews):  Subject, Review, ReviewRelevance           *)
(*   - review   (src/review):   SubjectReview, TeacherReview and votes     *)
(*   - teacherchannel (src/teacherchannel): original/teacher channel sync  *)
(*   - school   (src/school):   Teacher                                   *)
(*                                                                         *)
(* The relational store is modelled as sets of rows.  Constraints that the *)
(* schema declares (primary keys, unique constraints, foreign keys) are    *)
(* enforced: a commit that would break one raises IntegrityError and the   *)
(* transaction is rolled back.  Row ids come from a sequence and are never *)
(* reused.  `exc` holds the exception the last handler ended with.         *)
(***************************************************************************)
EXTENDS Integers, Sequences, FiniteSets, TLC

VARIABLES
    \* ---- reviews cog
    subjects,          \* table school_reviews_subjects
    reviews,           \* table school_reviews_reviews
    relevance,         \* table school_reviews_relevance
    nextReviewId,      \* id sequence of school_reviews_reviews
    \* ---- review cog
    subjectReviews,    \* table school_review_subject_review
    subjectRelevance,  \* table school_review_subject_relevance
    teacherReviews,    \* table school_review_teacher_review
    teacherRelevance,  \* table school_review_teacher_relevance
    \* ---- shared
    today,             \* date.today(), in days
    exc,               \* exception raised by the last handler, or "none"
    cast,              \* history: the vote each user last cast and still holds
    reply,             \* what the last reviews command replied, or "none"
    \* ---- teacherchannel cog
    channels,          \* the guild's text channels, by id
    tcRows,            \* table school_teacherchannel_teacherchannel (+ association)
    nextChannelId,     \* the id the next created channel gets
    current_loop,      \* iterations the load_views loop has run since the cog was loaded
    \* ---- school cog
    schoolTeachers,    \* table school_dataset_teacher
    nextTeacherIdx,    \* idx sequence of school_dataset_teacher
    named              \* history: the name last given to Teacher.add for each teacher

reviewsVars == <<subjects, reviews, relevance, nextReviewId>>
reviewVars == <<subjectReviews, subjectRelevance, teacherReviews, teacherRelevance>>
tcVars == <<channels, tcRows, nextChannelId, current_loop>>
schoolVars == <<schoolTeachers, nextTeacherIdx, named>>
vars == <<subjects, reviews, relevance, nextReviewId,
          subjectReviews, subjectRelevance, teacherReviews, teacherRelevance,
          today, exc, cast, reply, channels, tcRows, nextChannelId, current_loop,
          schoolTeachers, nextTeacherIdx, named>>

\* what the handlers of one cog leave alone
outsideReviews == <<reviewVars, tcVars, schoolVars>>
outsideReview == <<reviewsVars, tcVars, schoolVars, reply>>
outsideTC == <<reviewsVars, reviewVars, schoolVars, today, cast, reply>>
outsideSchool == <<reviewsVars, reviewVars, tcVars, today, cast, reply>>

----------------------------------------------------------------------------
\* Bounds

MaxReviews == 2
MaxDay == 1

Guild == "g"
Users == {1, 2}
Marks == {0, 1, 5, 6}
Texts == {<<>>, <<"t">>}
\* None where a row or a channel is expected
None == [class |-> "NoneType"]

\* None where a str is expected
NoneStr == "None"

LowerChar(c) == CASE c = "A" -> "a" [] c = "B" -> "b" [] OTHER -> c

\* str.lower()
Lower(s) == [i \in DOMAIN s |-> LowerChar(s[i])]

Abbreviations == {<<"a", "b">>, <<"A", "B">>}
SubjectNames == {"n1"}
SubjectCategories == {"c1"}

----------------------------------------------------------------------------
\* reviews cog: Subject

Subject_get(abbreviation) ==
    LET found == {s \in subjects : s.shortcut = Lower(abbreviation)}
    IN  IF found = {} THEN None ELSE CHOOSE s \in found : TRUE

Subject_add(abbreviation, name, category) ==
    LET found == {s \in subjects : s.shortcut = abbreviation}
        row == [shortcut |-> abbreviation, name |-> name, category |-> category]
    IN  /\ subjects' = (subjects \ found) \cup {row}
        /\ exc' = "none"
        /\ reply' = "Subject updated."
        /\ UNCHANGED <<reviews, relevance, nextReviewId, outsideReviews, today, cast>>

----------------------------------------------------------------------------
\* reviews cog: Review and ReviewRelevance

\* Review.relevance: the rows whose foreign key names the review
RelevanceOf(review_id) == {x \in relevance : x.review = review_id}

Review_get(review_id) ==
    LET found == {r \in reviews : r.id = review_id}
    IN  IF found = {} THEN None ELSE CHOOSE r \in found : TRUE

Review_get_positive_votes(review_id) ==
    Cardinality({x \in RelevanceOf(review_id) : x.vote})

Review_get_negative_votes(review_id) ==
    Cardinality({x \in RelevanceOf(review_id) : ~x.vote})

SetCast(table, review_id, user, v) ==
    cast' = [cast EXCEPT ![table][review_id][user] = v]

\* the mutant: append a row without looking for the voter's earlier one
Review_vote_append(review_id, user, vote) ==
    relevance \cup {[discord_id |-> user, vote |-> vote, review |-> review_id]}

\* the loop and append shared by vote_up (vote = True) and vote_down (False)
Review_vote_set(review_id, user, vote) ==
    IF \E x \in RelevanceOf(review_id) : x.discord_id = user
    THEN {IF x.review = review_id /\ x.discord_id = user
          THEN [x EXCEPT !.vote = vote] ELSE x : x \in relevance}
    ELSE relevance \cup {[discord_id |-> user, vote |-> vote, review |-> review_id]}

Review_vote_up(review_id, user) ==
    /\ Review_get(review_id) # None
    /\ relevance' = Review_vote_set(review_id, user, TRUE)
    /\ SetCast("reviews", review_id, user, "up")
    /\ exc' = "none"
    /\ reply' = "none"
    /\ UNCHANGED <<subjects, reviews, nextReviewId, outsideReviews, today>>

Review_vote_down(review_id, user) ==
    /\ Review_get(review_id) # None
    /\ relevance' = Review_vote_set(review_id, user, FALSE)
    /\ SetCast("reviews", review_id, user, "down")
    /\ exc' = "none"
    /\ reply' = "none"
    /\ UNCHANGED <<subjects, reviews, nextReviewId, outsideReviews, today>>

\* the mutant: the filter on the review is lost
Review_vote_neutral_rows_any(review_id, user) ==
    {x \in relevance : x.discord_id # user}

Review_vote_neutral_rows(review_id, user) ==
    {x \in relevance : ~(x.discord_id = user /\ x.review = review_id)}

Review_vote_neutral(review_id, user) ==
    /\ Review_get(review_id) # None
    /\ relevance' = Review_vote_neutral_rows(review_id, user)
    /\ SetCast("reviews", review_id, user, "none")
    /\ exc' = "none"
    /\ reply' = "none"
    /\ UNCHANGED <<subjects, reviews, nextReviewId, outsideReviews, today>>

\* Review.add, reached only through Reviews._add_review
Review_add(author, subject_abbreviation, mark, anonymous, text) ==
    LET subject_object == Subject_get(subject_abbreviation)
        found == {r \in reviews : /\ r.guild_id = Guild
                                  /\ r.discord_id = author
                                  /\ r.subject = subject_abbreviation}
    IN  IF Cardinality(found) > 1
        THEN \* one_or_none() raises
             /\ exc' = "MultipleResultsFound"
             /\ UNCHANGED <<reviews, relevance, nextReviewId, cast>>
        ELSE IF found # {}
        THEN \* "Just update the already existing object": review.mark is no
             \* column of the table, the column tier keeps its value
             LET review == CHOOSE r \in found : TRUE
                 updated == [review EXCEPT !.anonym = anonymous,
                                           !.text_review = text,
                                           !.date = today,
                                           !.subject = subject_object.shortcut]
             IN  /\ reviews' = (reviews \ {review}) \cup {updated}
                 /\ relevance' = relevance \ RelevanceOf(review.id)
                 /\ cast' = [cast EXCEPT !["reviews"][review.id] =
                                            [u \in Users |-> "none"]]
                 /\ exc' = "none"
                 /\ UNCHANGED nextReviewId
        ELSE \* the relationship subject_object decides the stored foreign key
             /\ nextReviewId <= MaxReviews
             /\ reviews' = reviews \cup
                    {[id |-> nextReviewId, guild_id |-> Guild,
                      discord_id |-> author, anonym |-> anonymous,
                      subject |-> subject_object.shortcut, tier |-> mark,
                      text_review |-> text, date |-> today]}
             /\ nextReviewId' = nextReviewId + 1
             /\ exc' = "none"
             /\ UNCHANGED <<relevance, cast>>

\* the mutant: the upper end of the mark range is not checked
Reviews_add_review_no_upper(author, subject, mark, text, anonymous) ==
    IF mark < 1
    THEN /\ exc' = "none"
         /\ reply' = "Mark must be in the range <1, 5>."
         /\ UNCHANGED <<reviews, relevance, nextReviewId, cast>>
    ELSE IF Subject_get(subject) = None
    THEN /\ exc' = "none"
         /\ reply' = "Unknown subject."
         /\ UNCHANGED <<reviews, relevance, nextReviewId, cast>>
    ELSE IF Len(text) = 0
    THEN /\ exc' = "none"
         /\ reply' = "Please provide text for the review."
         /\ UNCHANGED <<reviews, relevance, nextReviewId, cast>>
    ELSE /\ Review_add(author, subject, mark, anonymous, text)
         /\ reply' = IF exc' # "none" THEN "none"
                     ELSE IF anonymous
                     THEN "Anonymous review successfully updated."
                     ELSE "Review successfully updated."

Reviews_add_review(author, subject, mark, text, anonymous) ==
    IF mark < 1 \/ mark > 5
    THEN /\ exc' = "none"
         /\ reply' = "Mark must be in the range <1, 5>."
         /\ UNCHANGED <<reviews, relevance, nextReviewId, cast>>
    ELSE IF Subject_get(subject) = None
    THEN /\ exc' = "none"
         /\ reply' = "Unknown subject."
         /\ UNCHANGED <<reviews, relevance, nextReviewId, cast>>
    ELSE IF Len(text) = 0
    THEN /\ exc' = "none"
         /\ reply' = "Please provide text for the review."
         /\ UNCHANGED <<reviews, relevance, nextReviewId, cast>>
    ELSE \* the caller replies when the result is not None
         /\ Review_add(author, subject, mark, anonymous, text)
         /\ reply' = IF exc' # "none" THEN "none"
                     ELSE IF anonymous
                     THEN "Anonymous review successfully updated."
                     ELSE "Review successfully updated."

Reviews_review_add(author, subject, mark, text) ==
    /\ Reviews_add_review(author, subject, mark, text, FALSE)
    /\ UNCHANGED <<subjects, outsideReviews, today>>

Reviews_review_add_anonymous(author, subject, mark, text) ==
    /\ Reviews_add_review(author, subject, mark, text, TRUE)
    /\ UNCHANGED <<subjects, outsideReviews, today>>

\* Review.remove: a bulk DELETE; the votes' foreign key blocks it
Review_remove(user, subject_abbreviation) ==
    LET found == {r \in reviews : /\ r.guild_id = Guild
                                  /\ r.discord_id = user
                                  /\ r.subject = subject_abbreviation}
    IN  /\ IF \E r \in found : RelevanceOf(r.id) # {}
           THEN /\ exc' = "IntegrityError"
                /\ UNCHANGED reviews
           ELSE /\ reviews' = reviews \ found
                /\ exc' = "none"
        /\ reply' = IF exc' # "none" THEN "none"
                    ELSE IF found # {} THEN "Review deleted successfully."
                    ELSE "Review for this subject not found."
        /\ UNCHANGED <<subjects, relevance, nextReviewId, outsideReviews, today, cast>>

\* the calendar moves on
Tick ==
    /\ today < MaxDay
    /\ today' = today + 1
    /\ UNCHANGED <<reviewsVars, reviewVars, tcVars, schoolVars, exc, cast, reply>>

----------------------------------------------------------------------------
\* review cog: SubjectReview, TeacherReview and their votes

StaleDays == 30
Grades == -1 .. 6
SubjectIds == {1, 2}
TeacherIds == {1}

\* rows of school_review_subject_review the store holds when the cog loads:
\* idx 1 was last updated more than 30 days ago, idx 2 today
PersistedSubjectReviews ==
    {[idx |-> 1, guild_id |-> Guild, author_id |-> 1, subject_id |-> 1,
      anonym |-> TRUE, grade |-> 1, text_review |-> <<"t">>,
      created |-> 0 - StaleDays - 1, updated |-> 0 - StaleDays - 1],
     [idx |-> 2, guild_id |-> Guild, author_id |-> 2, subject_id |-> 1,
      anonym |-> FALSE, grade |-> 5, text_review |-> <<"u">>,
      created |-> 0, updated |-> 0]}

PersistedTeacherReviews ==
    {[idx |-> 1, guild_id |-> Guild, author_id |-> 1, teacher_id |-> 1,
      anonym |-> TRUE, grade |-> 1, text_review |-> <<"t">>,
      created |-> 0 - StaleDays - 1, updated |-> 0 - StaleDays - 1]}

\* session.query(...).filter_by(...): a Query object, not yet run
Query(rows) == [class |-> "Query", rows |-> rows]

\* bool(obj): Query defines neither __bool__ nor __len__
Truthy(obj) == IF obj.class = "Query" THEN TRUE ELSE obj.rows # {}

\* hasattr(obj, "updated"), hasattr(obj, "idx"): Query has no such attributes
HasRowAttributes(obj) == obj.class # "Query"

SubjectReview_upvotes(idx) ==
    Cardinality({x \in subjectRelevance : x.review = idx /\ x.vote = TRUE})

SubjectReview_downvotes(idx) ==
    Cardinality({x \in subjectRelevance : x.review = idx /\ x.vote = FALSE})

TeacherReview_upvotes(idx) ==
    Cardinality({x \in teacherRelevance : x.review = idx /\ x.vote = TRUE})

TeacherReview_downvotes(idx) ==
    Cardinality({x \in teacherRelevance : x.review = idx /\ x.vote = FALSE})

\* the mutant: the vote is added as a new row, the voter's earlier row is kept
Relevance_vote_rows_insert(table, idx, user, vote) ==
    IF vote = "None"
    THEN {x \in table : ~(x.review = idx /\ x.voter_id = user)}
    ELSE table \cup {[voter_id |-> user, vote |-> (vote = "True"), review |-> idx]}

\* the body of SubjectReview.vote and of TeacherReview.vote, on their table;
\* vote is "True", "False" or "None"
Relevance_vote_rows(table, idx, user, vote) ==
    LET db_vote == {x \in table : x.review = idx /\ x.voter_id = user}
    IN  IF vote = "None"
        THEN IF db_vote = {} THEN table ELSE table \ db_vote
        ELSE \* session.merge: insert, or update of the row with that key
             (table \ db_vote)
                 \cup {[voter_id |-> user, vote |-> (vote = "True"), review |-> idx]}

CastOf(vote) == IF vote = "None" THEN "none" ELSE IF vote = "True" THEN "up" ELSE "down"

SubjectReview_vote(idx, user, vote) ==
    /\ \E r \in subjectReviews : r.idx = idx
    /\ subjectRelevance' = Relevance_vote_rows(subjectRelevance, idx, user, vote)
    /\ SetCast("subject", idx, user, CastOf(vote))
    /\ exc' = "none"
    /\ UNCHANGED <<outsideReview, subjectReviews, teacherReviews, teacherRelevance, today>>

TeacherReview_vote(idx, user, vote) ==
    /\ \E r \in teacherReviews : r.idx = idx
    /\ teacherRelevance' = Relevance_vote_rows(teacherRelevance, idx, user, vote)
    /\ SetCast("teacher", idx, user, CastOf(vote))
    /\ exc' = "none"
    /\ UNCHANGED <<outsideReview, subjectReviews, subjectRelevance, teacherReviews, today>>

\* SubjectRelevance.reset / TeacherRelevance.reset
Relevance_reset(table, review_id) == {x \in table : x.review # review_id}

grade_constraint_check(value) == ~(value < 0 \/ value > 5)

\* review.grade = value on a stored SubjectReview, then the commit: the "set"
\* listener of the attribute runs grade_constraint_check first
SubjectReview_set_grade(idx, value) ==
    /\ \E r \in subjectReviews : r.idx = idx
    /\ IF ~grade_constraint_check(value)
       THEN /\ exc' = "ValueError"
            /\ UNCHANGED subjectReviews
       ELSE /\ exc' = "none"
            /\ subjectReviews' = {IF r.idx = idx THEN [r EXCEPT !.grade = value]
                                  ELSE r : r \in subjectReviews}
    /\ UNCHANGED <<outsideReview, subjectRelevance, teacherReviews,
                   teacherRelevance, today, cast>>

\* the same listener on TeacherReview.grade
TeacherReview_set_grade(idx, value) ==
    /\ \E r \in teacherReviews : r.idx = idx
    /\ IF ~grade_constraint_check(value)
       THEN /\ exc' = "ValueError"
            /\ UNCHANGED teacherReviews
       ELSE /\ exc' = "none"
            /\ teacherReviews' = {IF r.idx = idx THEN [r EXCEPT !.grade = value]
                                  ELSE r : r \in teacherReviews}
    /\ UNCHANGED <<outsideReview, subjectReviews, subjectRelevance,
                   teacherRelevance, today, cast>>

NextIdx(rows) == IF rows = {} THEN 1
                 ELSE 1 + CHOOSE m \in {r.idx : r \in rows} :
                              \A r \in rows : r.idx <= m

\* SubjectReview.add: `review` is the Query itself (it is never run)
SubjectReview_add(author, subject_id, grade, anonym, text) ==
    LET review == Query({r \in subjectReviews : /\ r.guild_id = Guild
                                                /\ r.author_id = author
                                                /\ r.subject_id = subject_id})
        now == today
    IN  /\ IF Truthy(review)
           THEN IF ~HasRowAttributes(review)
                THEN \* review.updated
                     /\ exc' = "AttributeError"
                     /\ UNCHANGED <<subjectReviews, subjectRelevance, cast>>
                ELSE LET row == CHOOSE r \in review.rows : TRUE
                         stale == (today - row.updated) > StaleDays
                     IN  IF ~grade_constraint_check(grade)
                         THEN /\ exc' = "ValueError"
                              /\ subjectRelevance' =
                                    IF stale
                                    THEN Relevance_reset(subjectRelevance, row.idx)
                                    ELSE subjectRelevance
                              /\ cast' = IF stale
                                         THEN [cast EXCEPT !["subject"][row.idx] =
                                                  [u \in Users |-> "none"]]
                                         ELSE cast
                              /\ UNCHANGED subjectReviews
                         ELSE /\ exc' = "none"
                              /\ subjectRelevance' =
                                    IF stale
                                    THEN Relevance_reset(subjectRelevance, row.idx)
                                    ELSE subjectRelevance
                              /\ cast' = IF stale
                                         THEN [cast EXCEPT !["subject"][row.idx] =
                                                  [u \in Users |-> "none"]]
                                         ELSE cast
                              /\ subjectReviews' = (subjectReviews \ {row}) \cup
                                    {[row EXCEPT !.anonym = anonym, !.grade = grade,
                                                 !.text_review = text,
                                                 !.updated = now]}
           ELSE IF ~grade_constraint_check(grade)
                THEN /\ exc' = "ValueError"
                     /\ UNCHANGED <<subjectReviews, subjectRelevance, cast>>
                ELSE /\ exc' = "none"
                     /\ subjectReviews' = subjectReviews \cup
                            {[idx |-> NextIdx(subjectReviews), guild_id |-> Guild,
                              author_id |-> author, subject_id |-> subject_id,
                              anonym |-> anonym, grade |-> grade,
                              text_review |-> text, created |-> now,
                              updated |-> now]}
                     /\ UNCHANGED <<subjectRelevance, cast>>
        /\ UNCHANGED <<outsideReview, teacherReviews, teacherRelevance, today>>

\* TeacherReview.add: the same, on the teacher tables; its else branch builds a
\* SubjectReview with a teacher_id, which the constructor rejects (TypeError)
TeacherReview_add(author, teacher_id, grade, anonym, text) ==
    LET review == Query({r \in teacherReviews : /\ r.guild_id = Guild
                                                /\ r.author_id = author
                                                /\ r.teacher_id = teacher_id})
        now == today
    IN  /\ IF Truthy(review)
           THEN IF ~HasRowAttributes(review)
                THEN \* review.updated
                     /\ exc' = "AttributeError"
                     /\ UNCHANGED <<teacherReviews, teacherRelevance, cast>>
                ELSE LET row == CHOOSE r \in review.rows : TRUE
                         stale == (today - row.updated) > StaleDays
                     IN  IF ~grade_constraint_check(grade)
                         THEN /\ exc' = "ValueError"
                              /\ teacherRelevance' =
                                    IF stale
                                    THEN Relevance_reset(teacherRelevance, row.idx)
                                    ELSE teacherRelevance
                              /\ cast' = IF stale
                                         THEN [cast EXCEPT !["teacher"][row.idx] =
                                                  [u \in Users |-> "none"]]
                                         ELSE cast
                              /\ UNCHANGED teacherReviews
                         ELSE /\ exc' = "none"
                              /\ teacherRelevance' =
                                    IF stale
                                    THEN Relevance_reset(teacherRelevance, row.idx)
                                    ELSE teacherRelevance
                              /\ cast' = IF stale
                                         THEN [cast EXCEPT !["teacher"][row.idx] =
                                                  [u \in Users |-> "none"]]
                                         ELSE cast
                              /\ teacherReviews' = (teacherReviews \ {row}) \cup
                                    {[row EXCEPT !.anonym = anonym, !.grade = grade,
                                                 !.text_review = text,
                                                 !.updated = now]}
           ELSE /\ exc' = "TypeError"
                /\ UNCHANGED <<teacherReviews, teacherRelevance, cast>>
        /\ UNCHANGED <<outsideReview, subjectReviews, subjectRelevance, today>>

----------------------------------------------------------------------------
\* teacherchannel cog: the guild and the store

MaxChannelId == 3

ChannelIds == 1 .. MaxChannelId
Members == {"m1", "m2"}
Roles == {"r"}
Targets == Roles \cup Members

\* tasks.loop(seconds=10.0, count=1)
LoopCount == 1

\* appendix = "_teacher"
appendix == <<"_", "t", "e", "a", "c", "h", "e", "r">>

\* str.endswith
EndsWith(s, suffix) ==
    /\ Len(s) >= Len(suffix)
    /\ SubSeq(s, Len(s) - Len(suffix) + 1, Len(s)) = suffix

\* PermissionOverwrite(read_messages=True, send_messages=True)
TeacherOverwrite == "rw"

\* a target without an overwrite in channel.overwrites
NoOverwrite == "None"

\* what the guild's staff may give a channel
ChannelNames == {<<"a">>, <<"b">>, <<"a">> \o appendix}
ChannelTopics == {"t1", "t2"}
ChannelCategories == {"c1", "c2"}
ChannelOverwrites ==
    {[t \in Targets |-> IF t = "r" THEN r ELSE IF t = "m1" THEN m ELSE NoOverwrite] :
        r \in {NoOverwrite, "x"}, m \in {NoOverwrite, "x"}}

InitialChannel ==
    [name |-> <<"a">>, topic |-> "t1", category |-> "c1",
     overwrites |-> [t \in Targets |-> NoOverwrite]]

SeqToSet(q) == {q[i] : i \in DOMAIN q}

\* the handlers' view of guild and store, threaded through their steps
TCState == [ch |-> channels, rows |-> tcRows, nid |-> nextChannelId,
            exc |-> "none"]

Raise(st, e) == [st EXCEPT !.exc = e]

\* TeacherChannelDB.get: by original channel
TeacherChannelDB_get(rows, o_channel_id) ==
    LET found == {x \in rows : x.o_channel_id = o_channel_id}
    IN  IF found = {} THEN None ELSE CHOOSE x \in found : TRUE

TeacherChannelDB_get_by_t_channel(rows, t_channel_id) ==
    LET found == {x \in rows : x.t_channel_id = t_channel_id}
    IN  IF found = {} THEN None ELSE CHOOSE x \in found : TRUE

\* the mutant: the teacher is appended without looking for it in the list
TeacherChannelDB_add_again(st, t_channel_id, o_channel_id, teacher_id) ==
    LET found == {x \in st.rows : /\ x.t_channel_id = t_channel_id
                                  /\ x.o_channel_id = o_channel_id}
    IN  IF found = {}
        THEN IF \E x \in st.rows : \/ x.t_channel_id = t_channel_id
                                   \/ x.o_channel_id = o_channel_id
             THEN Raise(st, "IntegrityError")
             ELSE [st EXCEPT !.rows = @ \cup {[t_channel_id |-> t_channel_id,
                                               o_channel_id |-> o_channel_id,
                                               teachers |-> <<teacher_id>>]}]
        ELSE LET row == CHOOSE x \in found : TRUE
             IN  [st EXCEPT !.rows = (@ \ {row}) \cup
                                {[row EXCEPT !.teachers = Append(@, teacher_id)]}]

\* TeacherChannelDB.add.  The rows of school_teacherchannel_teacher are only
\* ever added and no handler reads them back: they are not modelled.
TeacherChannelDB_add(st, t_channel_id, o_channel_id, teacher_id) ==
    LET found == {x \in st.rows : /\ x.t_channel_id = t_channel_id
                                  /\ x.o_channel_id = o_channel_id}
    IN  IF found = {}
        THEN IF \E x \in st.rows : \/ x.t_channel_id = t_channel_id
                                   \/ x.o_channel_id = o_channel_id
             THEN \* primary key t_channel_id, unique o_channel_id
                  Raise(st, "IntegrityError")
             ELSE [st EXCEPT !.rows = @ \cup {[t_channel_id |-> t_channel_id,
                                               o_channel_id |-> o_channel_id,
                                               teachers |-> <<teacher_id>>]}]
        ELSE LET row == CHOOSE x \in found : TRUE
             IN  IF teacher_id \notin SeqToSet(row.teachers)
                 THEN [st EXCEPT !.rows = (@ \ {row}) \cup
                                     {[row EXCEPT !.teachers =
                                          Append(@, teacher_id)]}]
                 ELSE st

\* list.remove: the first occurrence
RemoveFirst(q, e) ==
    IF e \notin SeqToSet(q) THEN q
    ELSE LET i == CHOOSE k \in DOMAIN q :
                      q[k] = e /\ \A j \in 1 .. k - 1 : q[j] # e
         IN  SubSeq(q, 1, i - 1) \o SubSeq(q, i + 1, Len(q))

\* TeacherChannelDB.remove
TeacherChannelDB_remove(st, t_channel_id, teacher_id) ==
    LET row == TeacherChannelDB_get_by_t_channel(st.rows, t_channel_id)
    IN  IF row = None
        THEN Raise(st, "AttributeError")
        ELSE LET teachers == RemoveFirst(row.teachers, teacher_id)
             IN  IF Len(teachers) < 1
                 THEN [st EXCEPT !.rows = @ \ {row}]
                 ELSE [st EXCEPT !.rows = (@ \ {row}) \cup
                                     {[row EXCEPT !.teachers = teachers]}]

\* channel.set_permissions(target, overwrite=...)
set_permissions(st, channel_id, target, overwrite) ==
    [st EXCEPT !.ch[channel_id].overwrites[target] = overwrite]

\* channel.clone(name=...): a new channel with the category, topic and
\* overwrites of the cloned one
clone(st, channel_id, name) ==
    [st EXCEPT !.ch[st.nid] = [st.ch[channel_id] EXCEPT !.name = name],
               !.nid = @ + 1]

----------------------------------------------------------------------------
\* teacherchannel cog: the handlers

\* TeacherChannel._recreate_ch.  The loop body runs once: its first pass
\* removes the teacher from the list the loop iterates, and either the list
\* is then exhausted (one teacher: the old row is deleted, the new one
\* inserted) or TeacherChannelDB.add raises (more teachers: the old row still
\* holds o_channel_id).
_recreate_ch(st, teacherchannel, channel_o) ==
    LET teachers == TeacherChannelDB_get(st.rows, channel_o).teachers
        channel_t == st.nid
        s1 == clone(st, channel_o, st.ch[channel_o].name \o appendix)
    IN  IF Len(teachers) = 0 THEN s1
        ELSE LET teacher == teachers[1]
                 s2 == TeacherChannelDB_remove(s1, teacherchannel.t_channel_id,
                                               teacher)
                 s3 == IF s2.exc # "none" THEN s2
                       ELSE TeacherChannelDB_add(s2, channel_t, channel_o, teacher)
             IN  IF s3.exc # "none" THEN s3
                 ELSE set_permissions(s3, channel_t, teacher, TeacherOverwrite)

\* _sync, the overwrites: "negative change", then "positive change"
sync_overwrites(current, before, after, teacher_ids) ==
    IF after = before THEN current
    ELSE [t \in Targets |->
            IF t \in teacher_ids THEN current[t]
            ELSE IF after[t] # NoOverwrite /\ after[t] # before[t] THEN after[t]
            ELSE IF before[t] # NoOverwrite /\ after[t] # before[t]
                 THEN NoOverwrite
            ELSE current[t]]

\* the mutant: the appendix is not added
sync_name_plain(current, before, after) ==
    IF after # before /\ ~EndsWith(before, appendix)
    THEN after ELSE current

\* _sync, the name
sync_name(current, before, after) ==
    IF after # before /\ ~EndsWith(before, appendix)
    THEN after \o appendix ELSE current

\* the mutant: the topic is never copied
sync_topic_never(current, before, after) == current

\* _sync, the topic
sync_topic(current, before, after) ==
    IF after # before THEN after ELSE current

\* _sync, the category
sync_category(current, before, after) ==
    IF after # before THEN after ELSE current

\* TeacherChannel._sync: channel_b and channel_a are channel records,
\* a_id the id of channel_a
_sync(st, channel_b, channel_a, a_id, teacherchannel) ==
    LET t == teacherchannel.t_channel_id
        channel_t == st.ch[t]
        teacher_ids == SeqToSet(teacherchannel.teachers)
    IN  IF channel_t = None
        THEN _recreate_ch(st, teacherchannel, a_id)
        ELSE [st EXCEPT !.ch[t] =
                [category |-> sync_category(channel_t.category,
                                  channel_b.category, channel_a.category),
                 overwrites |-> sync_overwrites(channel_t.overwrites,
                                  channel_b.overwrites, channel_a.overwrites,
                                  teacher_ids),
                 name |-> sync_name(channel_t.name, channel_b.name,
                                  channel_a.name),
                 topic |-> sync_topic(channel_t.topic, channel_b.topic,
                                  channel_a.topic)]]

\* the handler's outcome becomes the next state; a handler that would need a
\* channel id beyond MaxChannelId is not run
Apply(st) ==
    /\ st.nid <= MaxChannelId + 1
    /\ channels' = st.ch
    /\ tcRows' = st.rows
    /\ nextChannelId' = st.nid
    /\ exc' = st.exc
    /\ UNCHANGED outsideTC

\* a command or an event handler: the loop is not touched
Commit(st) == Apply(st) /\ UNCHANGED current_loop

IsTeacherChannel(c) == \E x \in tcRows : x.t_channel_id = c

\* the staff edits a channel that is not a registered teacher channel, and
\* TeacherChannel.on_guild_channel_update handles the event
on_guild_channel_update(c, channel_a) ==
    /\ channels[c] # None
    /\ ~IsTeacherChannel(c)
    /\ channel_a # channels[c]
    /\ LET channel_b == channels[c]
           st == [TCState EXCEPT !.ch[c] = channel_a]
           teacherchannel == TeacherChannelDB_get(tcRows, c)
       IN  Commit(IF teacherchannel = None THEN st
                  ELSE IF c = teacherchannel.t_channel_id THEN st
                  ELSE _sync(st, channel_b, channel_a, c, teacherchannel))

\* the staff deletes a channel; the cog has no handler for it
GuildChannelDelete(c) ==
    /\ channels[c] # None
    /\ Commit([TCState EXCEPT !.ch[c] = None])

RECURSIVE load_views_loop(_, _)
load_views_loop(st, channels_to_sync) ==
    IF channels_to_sync = <<>> THEN st
    ELSE LET channel_info == Head(channels_to_sync)
             o == channel_info.o_channel_id
             t == channel_info.t_channel_id
         IN  IF st.ch[o] = None
             THEN \* TeacherChannelDB.remove(guild_id, t_channel_id) lacks its
                  \* third argument
                  Raise(IF st.ch[t] # None THEN [st EXCEPT !.ch[t] = None]
                        ELSE st, "TypeError")
             ELSE IF st.ch[t] = None
             THEN _recreate_ch(st, channel_info, o)
             ELSE load_views_loop(_sync(st, st.ch[t], st.ch[o], o, channel_info),
                                  Tail(channels_to_sync))

Orders(S) == {q \in [1 .. Cardinality(S) -> S] :
                 \A i, j \in DOMAIN q : i # j => q[i] # q[j]}

\* the bot starts: the cog is constructed, which starts the loop, and the loop
\* runs load_views its LoopCount times as soon as the bot is ready
load_views ==
    \E channels_to_sync \in Orders(tcRows) :
        /\ Apply(load_views_loop(TCState, channels_to_sync))
        /\ current_loop' = LoopCount

\* TeacherChannel.__init__ alone: self.load_views.start() begins a new loop
TeacherChannel_init ==
    /\ current_loop' = 0
    /\ UNCHANGED <<channels, tcRows, nextChannelId, exc, outsideTC>>

\* a loop that never ends
tasks_loop_forever ==
    /\ \E channels_to_sync \in Orders(tcRows) :
          Apply(load_views_loop(TCState, channels_to_sync))
    /\ current_loop' = current_loop + 1

\* tasks.loop(seconds=10.0, count=1): one iteration of the loop, which ends
\* once current_loop reaches count
tasks_loop ==
    /\ current_loop < LoopCount
    /\ \E channels_to_sync \in Orders(tcRows) :
          Apply(load_views_loop(TCState, channels_to_sync))
    /\ current_loop' = current_loop + 1

\* teacherchannel set <channel> <teacher>
teacherchannel_set(channel, teacher) ==
    /\ channels[channel] # None
    /\ LET st == TCState
           by_o == TeacherChannelDB_get(tcRows, channel)
           teacherchannel == IF by_o # None THEN by_o
                             ELSE TeacherChannelDB_get_by_t_channel(tcRows, channel)
       IN  IF teacherchannel = None
           THEN LET newchannel == st.nid
                    s1 == clone(st, channel, st.ch[channel].name \o appendix)
                    s2 == set_permissions(s1, newchannel, teacher, TeacherOverwrite)
                IN  Commit(TeacherChannelDB_add(s2, newchannel, channel, teacher))
           ELSE LET s1 == TeacherChannelDB_add(st, teacherchannel.t_channel_id,
                                               teacherchannel.o_channel_id, teacher)
                IN  Commit(IF s1.exc # "none" THEN s1
                           ELSE IF s1.ch[teacherchannel.t_channel_id] = None
                           THEN Raise(s1, "AttributeError")
                           ELSE set_permissions(s1, teacherchannel.t_channel_id,
                                                teacher, TeacherOverwrite))

RECURSIVE unset_all(_, _, _)
unset_all(st, teacherDB_list, t) ==
    IF teacherDB_list = <<>> \/ st.exc # "none" THEN st
    ELSE unset_all(TeacherChannelDB_remove(
                       set_permissions(st, t, Head(teacherDB_list), NoOverwrite),
                       t, Head(teacherDB_list)),
                   Tail(teacherDB_list), t)

\* teacherchannel unset <channel> [teacher]
teacherchannel_unset(channel, teacher) ==
    /\ channels[channel] # None
    /\ LET st == TCState
           by_o == TeacherChannelDB_get(tcRows, channel)
           teacherchannel == IF by_o # None THEN by_o
                             ELSE TeacherChannelDB_get_by_t_channel(tcRows, channel)
       IN  IF teacherchannel = None THEN Commit(st)
           ELSE IF st.ch[teacherchannel.t_channel_id] = None
           THEN Commit(Raise(st, "AttributeError"))
           ELSE IF teacher # NoneStr
           THEN Commit(TeacherChannelDB_remove(
                           set_permissions(st, teacherchannel.t_channel_id,
                                           teacher, NoOverwrite),
                           teacherchannel.t_channel_id, teacher))
           ELSE Commit(unset_all(st, teacherchannel.teachers,
                                 teacherchannel.t_channel_id))

----------------------------------------------------------------------------
\* school cog: Teacher

SchoolGuilds == {"g", "h"}
SchoolIds == {1, 2}
TeacherNames == {"n1", "n2"}

\* rows and idx sequence of school_dataset_teacher, threaded through the calls
\* of one handler
TeacherTable == [rows |-> schoolTeachers, nid |-> nextTeacherIdx,
                 named |-> named, exc |-> "none"]

\* Teacher.add without the lookup: a new row on every call
Teacher_add_insert(st, guild_id, school_id, name) ==
    [st EXCEPT !.rows = @ \cup {[idx |-> st.nid, school_id |-> school_id,
                                 guild_id |-> guild_id, name |-> name]},
               !.nid = @ + 1,
               !.named[<<guild_id, school_id>>] = name]

\* Teacher.add(ctx, school_id, name)
Teacher_add(st, guild_id, school_id, name) ==
    LET found == {t \in st.rows : t.school_id = school_id /\ t.guild_id = guild_id}
    IN  IF st.exc # "none" THEN st
        ELSE IF Cardinality(found) > 1
        THEN \* one_or_none()
             Raise(st, "MultipleResultsFound")
        ELSE IF found = {}
        THEN \* merge() of a transient object adds a new row; the unique
             \* constraint on (school_id, guild_id) is checked at the commit
             IF \E t \in st.rows : t.school_id = school_id /\ t.guild_id = guild_id
             THEN Raise(st, "IntegrityError")
             ELSE [st EXCEPT !.rows = @ \cup {[idx |-> st.nid,
                                               school_id |-> school_id,
                                               guild_id |-> guild_id,
                                               name |-> name]},
                             !.nid = @ + 1,
                             !.named[<<guild_id, school_id>>] = name]
        ELSE LET teacher == CHOOSE t \in found : TRUE
             IN  [st EXCEPT !.rows = (@ \ {teacher})
                                       \cup {[teacher EXCEPT !.name = name]},
                            !.named[<<guild_id, school_id>>] = name]

CommitSchool(st) ==
    /\ schoolTeachers' = st.rows
    /\ nextTeacherIdx' = st.nid
    /\ named' = st.named
    /\ exc' = st.exc
    /\ UNCHANGED outsideSchool

\* a single call of Teacher.add
Teacher_add_call(guild_id, school_id, name) ==
    CommitSchool(Teacher_add(TeacherTable, guild_id, school_id, name))

\* the items of a JSON object: distinct keys, in the order of the document
JsonData == {q \in UNION {[1 .. n -> SchoolIds \X TeacherNames] : n \in 1 .. 2} :
                \A i, j \in DOMAIN q : i # j => q[i][1] # q[j][1]}

RECURSIVE import_teachers_loop(_, _, _)
import_teachers_loop(st, guild_id, items) ==
    IF items = <<>> THEN st
    ELSE import_teachers_loop(
             Teacher_add(st, guild_id, Head(items)[1], Head(items)[2]),
             guild_id, Tail(items))

\* School._import_teachers(ctx, json_data)
School_import_teachers(guild_id, json_data) ==
    CommitSchool(import_teachers_loop(TeacherTable, guild_id, json_data))

----------------------------------------------------------------------------
\* Initial states

NoCast(ids) == [i \in ids |-> [u \in Users |-> "none"]]

InitShared ==
    /\ today = 0
    /\ exc = "none"
    /\ reply = "none"
    /\ cast = [reviews |-> NoCast(1 .. MaxReviews),
               subject |-> NoCast({r.idx : r \in PersistedSubjectReviews}),
               teacher |-> NoCast({r.idx : r \in PersistedTeacherReviews})]

\* the reviews cog on an empty store
InitReviews ==
    /\ subjects = {}
    /\ reviews = {}
    /\ relevance = {}
    /\ nextReviewId = 1

\* the reviews cog after each user has reviewed the subject "ab"
InitReviewsWritten ==
    /\ subjects = {[shortcut |-> <<"a", "b">>, name |-> "n1", category |-> "c1"]}
    /\ reviews = {[id |-> u, guild_id |-> Guild, discord_id |-> u,
                   anonym |-> FALSE, subject |-> <<"a", "b">>, tier |-> 1,
                   text_review |-> <<"t">>, date |-> 0] : u \in Users}
    /\ relevance = {}
    /\ nextReviewId = Cardinality(Users) + 1

InitReview ==
    /\ subjectReviews = PersistedSubjectReviews
    /\ subjectRelevance = {}
    /\ teacherReviews = PersistedTeacherReviews
    /\ teacherRelevance = {}

\* the guild has one text channel and no teacher channel yet; the bot has
\* started on the empty store, so the loop has run and found nothing to sync
InitTC ==
    /\ channels = [c \in ChannelIds |-> IF c = 1 THEN InitialChannel ELSE None]
    /\ tcRows = {}
    /\ nextChannelId = 2
    /\ current_loop = LoopCount

\* no teacher has been imported yet
InitSchool ==
    /\ schoolTeachers = {}
    /\ nextTeacherIdx = 1
    /\ named = [k \in SchoolGuilds \X SchoolIds |-> NoneStr]

Init == InitShared /\ InitReviews /\ InitReview /\ InitTC /\ InitSchool

InitVotes == InitShared /\ InitReviewsWritten /\ InitReview /\ InitTC /\ InitSchool

----------------------------------------------------------------------------
\* Next-state relations

\* Optional[bool]
Votes == {"True", "False", "None"}

NextReviewsVotes ==
    \/ \E r \in 1 .. MaxReviews, u \in Users : Review_vote_up(r, u)
    \/ \E r \in 1 .. MaxReviews, u \in Users : Review_vote_down(r, u)
    \/ \E r \in 1 .. MaxReviews, u \in Users : Review_vote_neutral(r, u)

NextReviewVotes ==
    \/ \E r \in subjectReviews, u \in Users, v \in Votes :
          SubjectReview_vote(r.idx, u, v)
    \/ \E r \in teacherReviews, u \in Users, v \in Votes :
          TeacherReview_vote(r.idx, u, v)

NextVotes == NextReviewsVotes \/ NextReviewVotes

\* the users who vote while reviews are written
Voters == {2}

NextReviews ==
    \/ \E a \in Abbreviations, n \in SubjectNames, c \in SubjectCategories :
          Subject_add(a, n, c)
    \/ \E u \in Users, a \in Abbreviations, m \in Marks, t \in Texts :
          Reviews_review_add(u, a, m, t)
    \/ \E u \in Users, a \in Abbreviations, m \in Marks, t \in Texts :
          Reviews_review_add_anonymous(u, a, m, t)
    \/ \E u \in Users, a \in Abbreviations : Review_remove(u, a)
    \/ \E r \in 1 .. MaxReviews, u \in Voters : Review_vote_up(r, u)
    \/ \E r \in 1 .. MaxReviews, u \in Voters : Review_vote_down(r, u)
    \/ \E r \in 1 .. MaxReviews, u \in Voters : Review_vote_neutral(r, u)
    \/ Tick

NextReview ==
    \/ NextReviewVotes
    \/ \E u \in Users, s \in SubjectIds, g \in Grades, a \in BOOLEAN, t \in Texts :
          SubjectReview_add(u, s, g, a, t)
    \/ \E u \in Users, s \in TeacherIds, g \in Grades, a \in BOOLEAN, t \in Texts :
          TeacherReview_add(u, s, g, a, t)
    \/ Tick

\* grades assigned to stored reviews
NextGrade ==
    \/ \E r \in subjectReviews, g \in Grades : SubjectReview_set_grade(r.idx, g)
    \/ \E r \in teacherReviews, g \in Grades : TeacherReview_set_grade(r.idx, g)

\* the channels the staff edits: the subject channel the guild starts with
SubjectChannels == {1}

ChannelRecords ==
    [name : ChannelNames, topic : ChannelTopics, category : ChannelCategories,
     overwrites : ChannelOverwrites]

NextTC ==
    \/ \E c \in ChannelIds, m \in Members : teacherchannel_set(c, m)
    \/ \E c \in ChannelIds, m \in Members \cup {NoneStr} : teacherchannel_unset(c, m)
    \/ \E c \in SubjectChannels, after \in ChannelRecords :
          on_guild_channel_update(c, after)
    \/ \E c \in ChannelIds : GuildChannelDelete(c)
    \/ load_views

NextSchool ==
    \/ \E g \in SchoolGuilds, i \in SchoolIds, n \in TeacherNames :
          Teacher_add_call(g, i, n)
    \/ \E g \in SchoolGuilds, d \in JsonData : School_import_teachers(g, d)

Next == NextReviews \/ NextReview \/ NextGrade \/ NextTC \/ NextSchool

Spec == Init /\ [][Next]_vars

\* the three vote tables, voting only
SpecVotes == InitVotes /\ [][NextVotes]_vars

\* the reviews cog
SpecReviews == Init /\ [][NextReviews]_vars

\* the review cog
SpecReview == Init /\ [][NextReview]_vars

\* the grade listeners of the review cog
SpecGrade == Init /\ [][NextGrade]_vars

\* the teacherchannel cog
SpecTC == Init /\ [][NextTC]_vars

\* the teachers and the channel edits seen while the loop is followed
LoopMembers == Members
LoopRecords == {r \in ChannelRecords :
                   /\ r.topic = InitialChannel.topic
                   /\ r.category = InitialChannel.category
                   /\ r.overwrites = InitialChannel.overwrites}

NextLoop ==
    \/ TeacherChannel_init
    \/ tasks_loop
    \/ \E c \in ChannelIds, m \in LoopMembers : teacherchannel_set(c, m)
    \/ \E c \in SubjectChannels, after \in LoopRecords :
          on_guild_channel_update(c, after)
    \/ \E c \in ChannelIds : GuildChannelDelete(c)

\* the loop of the teacherchannel cog, start by start
SpecLoop == Init /\ [][NextLoop]_vars

\* the teachers of the school cog
SpecSchool == Init /\ [][NextSchool]_vars

----------------------------------------------------------------------------
\* Votes: C1, C2, C8 (checked under SpecVotes)

\* the voters holding a row on a review, in each table
ReviewVoters(review_id) == {x.discord_id : x \in RelevanceOf(review_id)}
SubjectVoters(idx) == {x.voter_id : x \in {y \in subjectRelevance : y.review = idx}}
TeacherVoters(idx) == {x.voter_id : x \in {y \in teacherRelevance : y.review = idx}}

CastBy(table, review_id, v) == {u \in Users : cast[table][review_id][u] = v}

\* C1: whatever votes were cast, each of the three vote tables holds at most
\* one row for a (review, voter) pair.
C1_OneVotePerUser ==
    /\ \A x, y \in relevance :
          (x.review = y.review /\ x.discord_id = y.discord_id) => x = y
    /\ \A x, y \in subjectRelevance :
          (x.review = y.review /\ x.voter_id = y.voter_id) => x = y
    /\ \A x, y \in teacherRelevance :
          (x.review = y.review /\ x.voter_id = y.voter_id) => x = y

\* a user who holds an up vote is about to vote down on the same review, in
\* each of the three tables
C1_Witness ==
    /\ ENABLED (/\ [discord_id |-> 1, vote |-> TRUE, review |-> 1] \in relevance
                /\ Review_vote_down(1, 1))
    /\ ENABLED (/\ [voter_id |-> 1, vote |-> TRUE, review |-> 1] \in subjectRelevance
                /\ SubjectReview_vote(1, 1, "False"))
    /\ ENABLED (/\ [voter_id |-> 1, vote |-> TRUE, review |-> 1] \in teacherRelevance
                /\ TeacherReview_vote(1, 1, "False"))

\* C2: for every review of every table the positive count is the number of
\* users whose last vote still held is up, the negative count the number whose
\* last vote is down, and the two add up to the number of voters with a row.
C2_VoteTally ==
    /\ \A r \in reviews :
          /\ Review_get_positive_votes(r.id)
                = Cardinality(CastBy("reviews", r.id, "up"))
          /\ Review_get_negative_votes(r.id)
                = Cardinality(CastBy("reviews", r.id, "down"))
          /\ Review_get_positive_votes(r.id) + Review_get_negative_votes(r.id)
                = Cardinality(ReviewVoters(r.id))
    /\ \A r \in subjectReviews :
          /\ SubjectReview_upvotes(r.idx)
                = Cardinality(CastBy("subject", r.idx, "up"))
          /\ SubjectReview_downvotes(r.idx)
                = Cardinality(CastBy("subject", r.idx, "down"))
          /\ SubjectReview_upvotes(r.idx) + SubjectReview_downvotes(r.idx)
                = Cardinality(SubjectVoters(r.idx))
    /\ \A r \in teacherReviews :
          /\ TeacherReview_upvotes(r.idx)
                = Cardinality(CastBy("teacher", r.idx, "up"))
          /\ TeacherReview_downvotes(r.idx)
                = Cardinality(CastBy("teacher", r.idx, "down"))
          /\ TeacherReview_upvotes(r.idx) + TeacherReview_downvotes(r.idx)
                = Cardinality(TeacherVoters(r.idx))

\* user 1 voted up and then down, user 2 voted up: one negative, one positive
C2_Witness ==
    /\ Review_get_positive_votes(1) = 1 /\ Review_get_negative_votes(1) = 1
    /\ cast["reviews"][1][1] = "down"
    /\ SubjectReview_upvotes(1) = 1 /\ SubjectReview_downvotes(1) = 1
    /\ cast["subject"][1][1] = "down"
    /\ TeacherReview_upvotes(1) = 1 /\ TeacherReview_downvotes(1) = 1
    /\ cast["teacher"][1][1] = "down"
    /\ ENABLED (Review_vote_down(1, 2) /\ Review_get_negative_votes(1)' = 2
                /\ Review_get_positive_votes(1)' = 0)

\* C8: a withdrawal removes the row of that user on that review and nothing
\* else: the user is in neither tally afterwards, every other row of every
\* table is as before, and nothing changes when the user had no row.
C8_Withdraw ==
    [][/\ \A r \in 1 .. MaxReviews, u \in Users :
             Review_vote_neutral(r, u) =>
                /\ relevance' = {x \in relevance :
                                    ~(x.review = r /\ x.discord_id = u)}
                /\ u \notin ReviewVoters(r)'
                /\ (u \notin ReviewVoters(r) => relevance' = relevance)
                /\ UNCHANGED <<subjectRelevance, teacherRelevance>>
       /\ \A r \in subjectReviews, u \in Users :
             SubjectReview_vote(r.idx, u, "None") =>
                /\ subjectRelevance' = {x \in subjectRelevance :
                                           ~(x.review = r.idx /\ x.voter_id = u)}
                /\ u \notin SubjectVoters(r.idx)'
                /\ (u \notin SubjectVoters(r.idx)
                        => subjectRelevance' = subjectRelevance)
                /\ UNCHANGED <<relevance, teacherRelevance>>
       /\ \A r \in teacherReviews, u \in Users :
             TeacherReview_vote(r.idx, u, "None") =>
                /\ teacherRelevance' = {x \in teacherRelevance :
                                           ~(x.review = r.idx /\ x.voter_id = u)}
                /\ u \notin TeacherVoters(r.idx)'
                /\ (u \notin TeacherVoters(r.idx)
                        => teacherRelevance' = teacherRelevance)
                /\ UNCHANGED <<relevance, subjectRelevance>>
      ]_vars

\* user 1 holds votes on two reviews, user 2 one on the first, and user 1
\* withdraws the vote on the first review
C8_Witness ==
    /\ ENABLED (/\ ReviewVoters(1) = {1, 2} /\ 1 \in ReviewVoters(2)
                /\ Review_vote_neutral(1, 1)
                /\ ReviewVoters(1)' = {2} /\ 1 \in ReviewVoters(2)')
    /\ ENABLED (/\ SubjectVoters(1) = {1, 2} /\ 1 \in SubjectVoters(2)
                /\ SubjectReview_vote(1, 1, "None")
                /\ SubjectVoters(1)' = {2} /\ 1 \in SubjectVoters(2)')
    /\ ENABLED (/\ TeacherVoters(1) = {1, 2}
                /\ TeacherReview_vote(1, 1, "None")
                /\ TeacherVoters(1)' = {2})

----------------------------------------------------------------------------
\* Reviews: C3 (checked under SpecReview), C9, C10 (under SpecReviews)

SubjectReviewsOf(rows, author, subject_id) ==
    {r \in rows : r.guild_id = Guild /\ r.author_id = author
                                     /\ r.subject_id = subject_id}

TeacherReviewsOf(rows, author, teacher_id) ==
    {r \in rows : r.guild_id = Guild /\ r.author_id = author
                                     /\ r.teacher_id = teacher_id}

\* C3: SubjectReview.add / TeacherReview.add with a valid grade: when the
\* author already has a review of that subject / teacher, that review is
\* updated and its votes are deleted if and only if it was last updated more
\* than StaleDays days ago; otherwise a review of the matching kind is created,
\* without votes.
C3_StaleReset ==
    [][/\ \A u \in Users, s \in SubjectIds, g \in 1 .. 5, a \in BOOLEAN, t \in Texts :
             SubjectReview_add(u, s, g, a, t) =>
                LET old == SubjectReviewsOf(subjectReviews, u, s)
                    new == SubjectReviewsOf(subjectReviews', u, s)
                IN  /\ Cardinality(new) = 1
                    /\ \A n \in new :
                          /\ n.grade = g /\ n.anonym = a /\ n.text_review = t
                          /\ n.updated = today
                          /\ \A o \in old :
                                /\ n.idx = o.idx
                                /\ SubjectVoters(o.idx)' =
                                      IF today - o.updated > StaleDays
                                      THEN {} ELSE SubjectVoters(o.idx)
                          /\ old = {} => SubjectVoters(n.idx)' = {}
       /\ \A u \in Users, s \in TeacherIds, g \in 1 .. 5, a \in BOOLEAN, t \in Texts :
             TeacherReview_add(u, s, g, a, t) =>
                LET old == TeacherReviewsOf(teacherReviews, u, s)
                    new == TeacherReviewsOf(teacherReviews', u, s)
                IN  /\ Cardinality(new) = 1
                    /\ \A n \in new :
                          /\ n.grade = g /\ n.anonym = a /\ n.text_review = t
                          /\ n.updated = today
                          /\ \A o \in old :
                                /\ n.idx = o.idx
                                /\ TeacherVoters(o.idx)' =
                                      IF today - o.updated > StaleDays
                                      THEN {} ELSE TeacherVoters(o.idx)
                          /\ old = {} => TeacherVoters(n.idx)' = {}
      ]_vars

\* C9: whatever reviews were added and removed, there is at most one review
\* per (guild, author, subject).
C9_OneReviewPerAuthorSubject ==
    \A x, y \in reviews :
        (x.guild_id = y.guild_id /\ x.discord_id = y.discord_id
                                 /\ x.subject = y.subject) => x = y

\* C10: review add with a valid mark and text, for a subject the author has
\* already reviewed: the stored review then holds the new mark, anonymity
\* flag, text and date, and no vote on it is left.
C10_UpdateReplaces ==
    [][\A u \in Users, a \in Abbreviations, m \in 1 .. 5, t \in Texts \ {<<>>} :
          \A old \in {r \in reviews : r.guild_id = Guild /\ r.discord_id = u
                                                          /\ r.subject = a} :
             Reviews_review_add(u, a, m, t) =>
                \E new \in reviews' :
                    /\ new.id = old.id
                    /\ new.tier = m
                    /\ new.anonym = FALSE
                    /\ new.text_review = t
                    /\ new.date = today
                    /\ ReviewVoters(old.id)' = {}
      ]_vars

----------------------------------------------------------------------------
\* Teacher channels: C4 .. C7 (checked under SpecTC)

\* the id of the clone the store registers for the original c (0: none)
CloneOf(rows, c) ==
    LET row == TeacherChannelDB_get(rows, c)
    IN  IF row = None THEN 0 ELSE row.t_channel_id

TeachersOf(rows, c) ==
    LET row == TeacherChannelDB_get(rows, c)
    IN  IF row = None THEN {} ELSE SeqToSet(row.teachers)

\* the original c has a registered clone and the clone exists in the guild
HasClone(c) ==
    /\ CloneOf(tcRows, c) # 0
    /\ channels[CloneOf(tcRows, c)] # None

\* the clone registered for c was deleted from the guild
CloneDeleted(c) ==
    /\ CloneOf(tcRows, c) # 0
    /\ channels[CloneOf(tcRows, c)] = None

\* an update event on the original c, handled by the cog
Updated(c) ==
    /\ channels'[c] # None
    /\ on_guild_channel_update(c, channels'[c])

\* C4: an update event on an original whose registered clone was deleted
\* creates a new clone named <original name>_teacher; the store then maps the
\* original to the new clone with the same set of teachers, each with read and
\* send permission on it.
C4_Recreated ==
    [][\A c \in SubjectChannels :
          (CloneDeleted(c) /\ Updated(c)) =>
             LET new == CloneOf(tcRows', c)
             IN  /\ new # 0
                 /\ new # CloneOf(tcRows, c)
                 /\ channels'[new] # None
                 /\ channels'[new].name = channels'[c].name \o appendix
                 /\ TeachersOf(tcRows', c) = TeachersOf(tcRows, c)
                 /\ \A m \in TeachersOf(tcRows, c) :
                       channels'[new].overwrites[m] = TeacherOverwrite
      ]_vars

\* C5: after an update event that changed the overwrites of an original with
\* a clone, the clone's overwrite of every target that is not a registered
\* teacher equals the original's.
C5_OverwritesMirrored ==
    [][\A c \in SubjectChannels :
          (/\ HasClone(c)
           /\ Updated(c)
           /\ channels'[c].overwrites # channels[c].overwrites) =>
             \A t \in Targets \ TeachersOf(tcRows, c) :
                channels'[CloneOf(tcRows, c)].overwrites[t]
                    = channels'[c].overwrites[t]
      ]_vars

\* C6 as stated: after an update event that renamed an original with a clone,
\* whatever the old and the new name, the clone's name is the new name
\* followed by _teacher.
C6_AnyOldName ==
    [][\A c \in SubjectChannels :
          (/\ HasClone(c)
           /\ Updated(c)
           /\ channels'[c].name # channels[c].name) =>
             channels'[CloneOf(tcRows, c)].name = channels'[c].name \o appendix
      ]_vars

\* C6, amended: after an update event that renamed an original with a clone
\* from a name that does not end with _teacher, the clone's name is the new
\* name followed by _teacher.
C6_NameMirrored ==
    [][\A c \in SubjectChannels :
          (/\ HasClone(c)
           /\ Updated(c)
           /\ channels'[c].name # channels[c].name
           /\ ~EndsWith(channels[c].name, appendix)) =>
             channels'[CloneOf(tcRows, c)].name = channels'[c].name \o appendix
      ]_vars

\* the original a, with its clone a_teacher, is renamed to b
C6_Witness ==
    ENABLED (/\ HasClone(1)
             /\ channels[1].name = <<"a">>
             /\ channels[CloneOf(tcRows, 1)].name = <<"a">> \o appendix
             /\ on_guild_channel_update(1, [channels[1] EXCEPT !.name = <<"b">>])
             /\ channels'[CloneOf(tcRows, 1)].name = <<"b">> \o appendix)

----------------------------------------------------------------------------
\* Input validation: C11 (checked under SpecReviews)

ErrorReplies == {"Mark must be in the range <1, 5>.", "Unknown subject.",
                 "Please provide text for the review."}

\* a subject with that abbreviation, ignoring case, is stored
SubjectKnown(abbreviation) ==
    \E x \in subjects : Lower(x.shortcut) = Lower(abbreviation)

ValidInput(abbreviation, mark, text) ==
    /\ mark \in 1 .. 5
    /\ SubjectKnown(abbreviation)
    /\ text # <<>>

\* what C11 asks of a step of review add
ValidationHolds(abbreviation, mark, text) ==
    /\ ~ValidInput(abbreviation, mark, text) =>
          /\ reply' \in ErrorReplies
          /\ UNCHANGED <<reviews, relevance>>
    /\ (reviews' # reviews \/ relevance' # relevance) =>
          ValidInput(abbreviation, mark, text)

\* C11: review add and review add-anonymous with a mark outside 1..5, an
\* unknown subject or an empty text reply with an error and leave every review
\* and every vote as it was; reviews or votes change only on a valid input.
\* Stated of every reachable state: the command has no step that does
\* otherwise.
C11_InputValidation ==
    \A u \in Users, a \in Abbreviations, m \in Marks, t \in Texts :
        /\ ~ENABLED (/\ Reviews_review_add(u, a, m, t)
                     /\ ~ValidationHolds(a, m, t))
        /\ ~ENABLED (/\ Reviews_review_add_anonymous(u, a, m, t)
                     /\ ~ValidationHolds(a, m, t))

\* with reviews and votes stored, one user sends a mark of 6, another a mark
\* of 0 and an empty text; before any subject is stored the subject is unknown
C11_Witness ==
    /\ reviews # {} /\ relevance # {}
    /\ ENABLED (/\ Reviews_review_add(1, <<"a", "b">>, 6, <<"t">>)
                /\ reply' = "Mark must be in the range <1, 5>."
                /\ UNCHANGED <<reviews, relevance>>)
    /\ ENABLED (/\ Reviews_review_add_anonymous(2, <<"a", "b">>, 0, <<"t">>)
                /\ reply' = "Mark must be in the range <1, 5>."
                /\ UNCHANGED <<reviews, relevance>>)
    /\ ENABLED (/\ Reviews_review_add(1, <<"a", "b">>, 5, <<>>)
                /\ reply' = "Please provide text for the review."
                /\ UNCHANGED <<reviews, relevance>>)
    /\ ENABLED (/\ Reviews_review_add(1, <<"a", "b">>, 5, <<"t">>)
                /\ reply' = "Review successfully updated.")

----------------------------------------------------------------------------
\* Grade constraint: C12 (checked under SpecGrade)

\* C12: an assignment of a grade outside 1..5 to a SubjectReview or a
\* TeacherReview raises ValueError, so no stored review ever holds a grade
\* outside 1..5.
C12_GradeRange ==
    \A r \in subjectReviews \cup teacherReviews : r.grade \in 1 .. 5

----------------------------------------------------------------------------
\* Subject lookup: C13 (checked under SpecReviews)

\* C13: Subject.get returns a subject stored through Subject.add for every
\* upper/lower-case variant of its abbreviation, and None only when no subject
\* has that abbreviation, ignoring case.
C13_CaseInsensitiveGet ==
    \A a \in Abbreviations :
        /\ \A x \in subjects :
              Lower(x.shortcut) = Lower(a) => Subject_get(a) = x
        /\ Subject_get(a) = None => ~SubjectKnown(a)

----------------------------------------------------------------------------
\* teacherchannel set and unset: C14, C15 (checked under SpecTC)

\* the mapping a command finds for its channel argument: by original channel,
\* else by teacher channel
MappingOf(channel) ==
    LET by_o == TeacherChannelDB_get(tcRows, channel)
    IN  IF by_o # None THEN by_o
        ELSE TeacherChannelDB_get_by_t_channel(tcRows, channel)

\* the channels that exist in the guild
Existing(chs) == {c \in ChannelIds : chs[c] # None}

\* what C14 asks of a step of teacherchannel set
SetHolds(channel, teacher) ==
    LET row == MappingOf(channel)
    IN  IF row # None
        THEN /\ Existing(channels') = Existing(channels)
             /\ nextChannelId' = nextChannelId
             /\ \E new \in tcRows' :
                   /\ new.t_channel_id = row.t_channel_id
                   /\ new.o_channel_id = row.o_channel_id
                   /\ SeqToSet(new.teachers) = SeqToSet(row.teachers) \cup {teacher}
                   /\ tcRows' \ {new} = tcRows \ {row}
        ELSE /\ Existing(channels') = Existing(channels) \cup {nextChannelId}
             /\ nextChannelId \notin Existing(channels)
             /\ nextChannelId' = nextChannelId + 1
             /\ tcRows' = tcRows \cup {[t_channel_id |-> nextChannelId,
                                        o_channel_id |-> channel,
                                        teachers |-> <<teacher>>]}

\* C14: teacherchannel set on a channel registered as original or as teacher
\* channel clones nothing and adds the teacher to that mapping; on any other
\* channel it creates and registers exactly one clone.  Every original has at
\* most one registered teacher channel, and no teacher is twice among the
\* teachers of a channel.
C14_SetRegisters ==
    /\ \A c \in ChannelIds, m \in Members :
          ~ENABLED (teacherchannel_set(c, m) /\ ~SetHolds(c, m))
    /\ \A x, y \in tcRows : x.o_channel_id = y.o_channel_id => x = y
    /\ \A x \in tcRows : \A i, j \in DOMAIN x.teachers :
          x.teachers[i] = x.teachers[j] => i = j

\* channel 1 is registered with the clone 2 and the teacher m1: m2 is set on
\* the original, m2 is set on the teacher channel, and m1 is set again
C14_Witness ==
    /\ tcRows = {[t_channel_id |-> 2, o_channel_id |-> 1, teachers |-> <<"m1">>]}
    /\ channels[2] # None
    /\ ENABLED (/\ teacherchannel_set(1, "m2")
                /\ TeachersOf(tcRows', 1) = {"m1", "m2"}
                /\ nextChannelId' = nextChannelId)
    /\ ENABLED (/\ teacherchannel_set(2, "m2")
                /\ TeachersOf(tcRows', 1) = {"m1", "m2"}
                /\ nextChannelId' = nextChannelId)
    /\ ENABLED (/\ teacherchannel_set(1, "m1")
                /\ tcRows' = tcRows)

\* what C15 asks of a step of teacherchannel unset on a registered channel;
\* teacher is a member, or NoneStr for all teachers
UnsetHolds(channel, teacher) ==
    LET row == MappingOf(channel)
    IN  row # None =>
           LET t == row.t_channel_id
               removed == IF teacher = NoneStr THEN SeqToSet(row.teachers)
                          ELSE {teacher} \cap SeqToSet(row.teachers)
               left == SeqToSet(row.teachers) \ removed
           IN  /\ Existing(channels') = Existing(channels)
               /\ IF left = {}
                  THEN tcRows' = tcRows \ {row}
                  ELSE \E new \in tcRows' :
                          /\ new.t_channel_id = row.t_channel_id
                          /\ new.o_channel_id = row.o_channel_id
                          /\ SeqToSet(new.teachers) = left
                          /\ tcRows' \ {new} = tcRows \ {row}
               /\ channels'[t] # None =>
                     \A m \in removed : channels'[t].overwrites[m] = NoOverwrite

\* C15: teacherchannel unset with a teacher removes that teacher, and no
\* other, from the mapping of the channel and clears the teacher's overwrite on
\* the clone; without a teacher it removes all teachers; the mapping is
\* deleted exactly when no teacher is left, and no channel is deleted.
C15_Unset ==
    \A c \in ChannelIds, m \in Members \cup {NoneStr} :
        ~ENABLED (teacherchannel_unset(c, m) /\ ~UnsetHolds(c, m))

----------------------------------------------------------------------------
\* The load_views loop: C16 (checked under SpecLoop)

\* C16 as stated: the sync is polled for as long as the bot runs, so that a
\* divergence between an original and its clone, a deleted clone included, is
\* repaired without a further update event: whenever the clone of an existing
\* original is missing, the loop still has an iteration to run.
C16_Polled ==
    \A c \in ChannelIds :
        (channels[c] # None /\ CloneDeleted(c)) => current_loop < LoopCount

\* C16: load_views runs once after the cog is loaded and never again while
\* the bot runs: the loop never runs more than LoopCount iterations, and a
\* missing clone comes back only through an update event of its original or
\* through the one iteration that follows a start of the cog.
C16_RunsOnce ==
    /\ [](current_loop \in 0 .. LoopCount)
    /\ [][\A c \in ChannelIds :
            (CloneDeleted(c) /\ ~CloneDeleted(c)') =>
                \/ Updated(c)
                \/ current_loop = 0 /\ current_loop' = LoopCount]_vars

\* the loop has ended and a clone deleted afterwards stays missing, although a
\* further iteration would have a channel id to recreate it with
C16_Witness ==
    /\ current_loop = LoopCount
    /\ ~ENABLED tasks_loop
    /\ nextChannelId <= MaxChannelId
    /\ \E c \in ChannelIds : channels[c] # None /\ CloneDeleted(c)

----------------------------------------------------------------------------
\* Teachers of the school cog: C17 (checked under SpecSchool)

TeachersFor(rows, guild_id, school_id) ==
    {t \in rows : t.guild_id = guild_id /\ t.school_id = school_id}

\* what one call of Teacher.add does to the table
AddHolds(guild_id, school_id, name) ==
    LET old == TeachersFor(schoolTeachers, guild_id, school_id)
    IN  IF old = {}
        THEN \E new \in schoolTeachers' :
                /\ schoolTeachers' = schoolTeachers \cup {new}
                /\ new \notin schoolTeachers
                /\ new.guild_id = guild_id /\ new.school_id = school_id
                /\ new.name = name
                /\ \A t \in schoolTeachers : t.idx # new.idx
        ELSE \E t \in old :
                schoolTeachers' = (schoolTeachers \ {t})
                                     \cup {[t EXCEPT !.name = name]}

====
